---- MODULE Spec2Model ----
(***************************************************************************)
(* Model of tower-http's include_dir storage backend                       *)
(* (src/services/fs/serve_dir/include_dir.rs): IncludeDirBackend (open,    *)
(* metadata), IncludeDirFile (poll_read, start_seek, poll_complete,        *)
(* metadata) and IncludeDirMetadata (is_dir, modified, len).               *)
(*                                                                         *)
(* Integers are modelled at a scaled word width: u64/i64 and usize/isize   *)
(* are all Bits bits wide (the 64-bit target, where the `as _` casts       *)
(* between them keep the value).                                           *)
(***************************************************************************)
EXTENDS Integers, Sequences, FiniteSets, TLC

VARIABLES
    files,   \* slot -> None | Some(IncludeDirFile): the handles the consumer holds
    ghost,   \* slot -> history of the handle since its last repositioning
    meta,    \* None | Some(IncludeDirMetadata): the snapshot the consumer holds
    last     \* the most recent operation, its inputs and its result

vars == <<files, ghost, meta, last>>

----------------------------------------------------------------------------
(* Bounds *)

\* scaled width, in bits, of u64 / i64 / usize / isize
Bits == 3
\* largest remaining capacity of a destination buffer handed to poll_read
MaxCap == 3

UsizeMax == 2^Bits - 1
U64Max == 2^Bits - 1
IsizeMax == 2^(Bits - 1) - 1
IsizeMin == -(2^(Bits - 1))
I64Max == 2^(Bits - 1) - 1
I64Min == -(2^(Bits - 1))

\* u64::MAX, i64::MAX and i64::MIN on a target whose usize is narrower than
\* u64 (a 32-bit target): usize and isize keep their Bits bits, u64 and i64
\* have one bit more
U64MaxWide == 2^(Bits + 1) - 1
I64MaxWide == 2^Bits - 1
I64MinWide == -(2^Bits)

----------------------------------------------------------------------------
(* Option, Result *)

None == [some |-> FALSE]
Some(x) == [some |-> TRUE, val |-> x]

NotFound == "NotFound"
InvalidInput == "InvalidInput"
InvalidSeekMsg == <<"invalid seek to a negative or overflowing position">>

Ok(x) == [ok |-> TRUE, val |-> x, kind |-> "", msg |-> <<>>]
Err(k, m) == [ok |-> FALSE, val |-> 0, kind |-> k, msg |-> m]

----------------------------------------------------------------------------
(* Integer conversions and checked arithmetic, as the target computes them *)

\* `x as usize` for a u64 x
AsUsize(x) == x % (UsizeMax + 1)

\* `x as isize` for an i64 x (two's complement reinterpretation)
AsIsize(x) ==
    LET m == x % (2 * (IsizeMax + 1))
    IN  IF m > IsizeMax THEN m - 2 * (IsizeMax + 1) ELSE m

\* `x as u64` for a usize x
AsU64(x) == x % (U64Max + 1)

\* usize::checked_add_signed
checked_add_signed(a, b) ==
    IF a + b < 0 \/ a + b > UsizeMax THEN None ELSE Some(a + b)

Min(a, b) == IF a <= b THEN a ELSE b

----------------------------------------------------------------------------
(* The embedded directory tree (include_dir::Dir), immutable *)

NoFileRec == [path |-> "", contents |-> <<>>, metadata |-> None]

FileEntry(p, c, m) == [kind |-> "File", path |-> p, file |-> [path |-> p, contents |-> c, metadata |-> m]]
DirEntry(p) == [kind |-> "Dir", path |-> p, file |-> NoFileRec]

Tree ==
    { FileEntry("hello.txt", <<104, 105, 33>>, Some([modified |-> 7])),
      FileEntry("empty.txt", <<>>, None),
      DirEntry("images"),
      FileEntry("images/logo", <<1, 2>>, Some([modified |-> 9])) }

\* the paths the consumer asks for: the stored paths, other spellings of them
\* (a trailing separator, a `.` in the middle, a leading `./`) and an absent one
Paths ==
    {"hello.txt", "empty.txt", "images", "images/logo", "missing.txt",
     "hello.txt/", "images/./logo", "images/", "./hello.txt"}

\* the pieces of s between `/` separators from position i on, cur being the
\* piece begun so far
RECURSIVE segments(_, _, _)
segments(s, i, cur) ==
    IF i > Len(s)
    THEN <<cur>>
    ELSE IF SubSeq(s, i, i) = "/"
         THEN <<cur>> \o segments(s, i + 1, "")
         ELSE segments(s, i + 1, cur \o SubSeq(s, i, i))

RECURSIVE normal_from(_, _, _)
normal_from(segs, k, has_root) ==
    IF k > Len(segs)
    THEN <<>>
    ELSE LET seg == segs[k]
             skip == seg = "" \/ (seg = "." /\ (k > 1 \/ has_root))
         IN  (IF skip THEN <<>> ELSE <<seg>>) \o normal_from(segs, k + 1, has_root)

\* Path::components (Unix): a leading `/` is the root component, repeated and
\* trailing separators vanish, `.` vanishes except at the very start of a
\* relative path, `..` stays
components(path) ==
    LET has_root == Len(path) >= 1 /\ SubSeq(path, 1, 1) = "/"
    IN  (IF has_root THEN <<"/">> ELSE <<>>)
            \o normal_from(segments(path, 1, ""), 1, has_root)

\* the components of the stored paths and of the paths the consumer asks for,
\* computed once
KnownComponents ==
    [p \in Paths \cup {e.path : e \in Tree} |-> components(p)]

ComponentsOf(path) ==
    IF path \in DOMAIN KnownComponents THEN KnownComponents[path] ELSE components(path)

\* impl PartialEq for Path: equal when the components are
path_eq(a, b) == ComponentsOf(a) = ComponentsOf(b)

\* DirEntry::as_file, DirEntry::as_dir, DirEntry::path
as_file(e) == IF e.kind = "File" THEN Some(e.file) ELSE None
as_dir(e) == IF e.kind = "Dir" THEN Some(e.path) ELSE None

\* Dir::get_entry, Dir::get_file
\* mutant: compares the paths as strings, byte for byte
get_entry_bytes(path) ==
    IF \E e \in Tree : e.path = path
    THEN Some(CHOOSE e \in Tree : e.path = path)
    ELSE None

\* entry.path() == path, compared as Paths
get_entry(path) ==
    IF \E e \in Tree : path_eq(e.path, path)
    THEN Some(CHOOSE e \in Tree : path_eq(e.path, path))
    ELSE None

get_file(path) ==
    LET e == get_entry(path)
    IN  IF e.some THEN as_file(e.val) ELSE None

----------------------------------------------------------------------------
(* impl Backend for IncludeDirBackend *)

\* Box::pin(async move { .. }) with no await inside: polled once, it is Ready
async_block(r) == [poll |-> "Ready", res |-> r]

\* mutant: looks the path up with get_entry, so a directory opens too
open_any(path) ==
    LET e == get_entry(path)
    IN  IF e.some
        THEN Ok([index |-> 0, inner |-> e.val.file])
        ELSE Err(NotFound, <<path, " is not a file.">>)

open(path) ==
    LET f == get_file(path)
    IN  IF f.some
        THEN Ok([index |-> 0, inner |-> f.val])
        ELSE Err(NotFound, <<path, " is not a file.">>)

\* mutant: looks the path up with get_file, so a directory is not found
metadata_files_only(path) ==
    LET f == get_file(path)
    IN  IF f.some
        THEN Ok([entry |-> [kind |-> "File", path |-> f.val.path, file |-> f.val]])
        ELSE Err(NotFound, <<path, " not found.">>)

metadata(path) ==
    LET e == get_entry(path)
    IN  IF e.some
        THEN Ok([entry |-> e.val])
        ELSE Err(NotFound, <<path, " not found.">>)

----------------------------------------------------------------------------
(* impl AsyncRead for IncludeDirFile *)

\* ReadBuf: the bytes already filled and the total capacity
ReadBuf(filled, cap) == [filled |-> filled, cap |-> cap]
remaining(buf) == buf.cap - Len(buf.filled)

\* <&[u8] as AsyncRead>::poll_read: copy min(len, remaining) bytes, always Ready(Ok)
slice_poll_read(data, buf) ==
    LET amt == Min(Len(data), remaining(buf))
    IN  [data |-> SubSeq(data, amt + 1, Len(data)),
         buf |-> [buf EXCEPT !.filled = buf.filled \o SubSeq(data, 1, amt)],
         poll |-> "Ready"]

\* &data[i..]: the tail of data from i on; out of range, a panic, when i > len
slice_from(data, i) ==
    IF i > Len(data)
    THEN [panic |-> TRUE, val |-> <<>>]
    ELSE [panic |-> FALSE, val |-> SubSeq(data, i + 1, Len(data))]

\* a += b on usize: past usize::MAX it panics (debug) or wraps (release)
add_usize(a, b) ==
    [overflow |-> a + b > UsizeMax, val |-> (a + b) % (UsizeMax + 1)]

\* what poll_read returns: the handle and buffer afterwards, Poll<io::Result<()>>,
\* and whether it aborted on the way (slice out of range, cursor overflow)
ReadOutcome(self, buf, poll, abort) ==
    [self |-> self, buf |-> buf, res |-> Ok(0), poll |-> poll, abort |-> abort]

\* mutant: advances index by the buffer's remaining capacity, not by the bytes copied
poll_read_cap(self, buf) ==
    LET data == self.inner.contents
    IN  IF self.index >= Len(data)
        THEN ReadOutcome(self, buf, "Ready", FALSE)
        ELSE LET rest == SubSeq(data, self.index + 1, Len(data))
                 r == slice_poll_read(rest, buf)
             IN  ReadOutcome([self EXCEPT !.index = self.index + remaining(buf)],
                             r.buf, "Ready", FALSE)

\* mutant: copies one byte per read at most
poll_read_short(self, buf) ==
    LET data == self.inner.contents
    IN  IF self.index >= Len(data)
        THEN ReadOutcome(self, buf, "Ready", FALSE)
        ELSE LET rest == SubSeq(data, self.index + 1, self.index + 1)
                 before_filled == Len(buf.filled)
                 r == slice_poll_read(rest, buf)
                 filled == Len(r.buf.filled) - before_filled
             IN  ReadOutcome([self EXCEPT !.index = self.index + filled],
                             r.buf, "Ready", FALSE)

\* mutant: reports Pending at the end of the content instead of a zero-byte read
poll_read_pending_at_end(self, buf) ==
    LET data == self.inner.contents
    IN  IF self.index >= Len(data)
        THEN ReadOutcome(self, buf, "Pending", FALSE)
        ELSE LET rest == slice_from(data, self.index)
                 before_filled == Len(buf.filled)
                 r == slice_poll_read(rest.val, buf)
                 filled == Len(r.buf.filled) - before_filled
                 sum == add_usize(self.index, filled)
             IN  ReadOutcome([self EXCEPT !.index = sum.val], r.buf, "Ready",
                             rest.panic \/ sum.overflow)

\* mutant: no early return at the end of the content
poll_read_unguarded(self, buf) ==
    LET data == self.inner.contents
        rest == slice_from(data, self.index)
        before_filled == Len(buf.filled)
        r == slice_poll_read(rest.val, buf)
        filled == Len(r.buf.filled) - before_filled
        sum == add_usize(self.index, filled)
    IN  ReadOutcome([self EXCEPT !.index = sum.val], r.buf, "Ready",
                    rest.panic \/ sum.overflow)

\* mutant: a read at or past the end pulls the cursor back to the content length
poll_read_clamp(self, buf) ==
    LET data == self.inner.contents
    IN  IF self.index >= Len(data)
        THEN ReadOutcome([self EXCEPT !.index = Len(data)], buf, "Ready", FALSE)
        ELSE LET rest == slice_from(data, self.index)
                 before_filled == Len(buf.filled)
                 r == slice_poll_read(rest.val, buf)
                 filled == Len(r.buf.filled) - before_filled
                 sum == add_usize(self.index, filled)
             IN  ReadOutcome([self EXCEPT !.index = sum.val], r.buf, "Ready",
                             rest.panic \/ sum.overflow)

\* mutant: copies the bytes but leaves the cursor where it was
poll_read_stuck(self, buf) ==
    LET data == self.inner.contents
    IN  IF self.index >= Len(data)
        THEN ReadOutcome(self, buf, "Ready", FALSE)
        ELSE LET rest == slice_from(data, self.index)
                 r == slice_poll_read(rest.val, buf)
             IN  ReadOutcome(self, r.buf, "Ready", rest.panic)

\* mutant: counts one byte more than was copied
poll_read_overshoot(self, buf) ==
    LET data == self.inner.contents
    IN  IF self.index >= Len(data)
        THEN ReadOutcome(self, buf, "Ready", FALSE)
        ELSE LET rest == slice_from(data, self.index)
                 before_filled == Len(buf.filled)
                 r == slice_poll_read(rest.val, buf)
                 filled == Len(r.buf.filled) - before_filled
                 sum == add_usize(self.index, filled + 1)
             IN  ReadOutcome([self EXCEPT !.index = sum.val], r.buf, "Ready",
                             rest.panic \/ sum.overflow)

poll_read(self, buf) ==
    LET data == self.inner.contents
    IN  IF self.index >= Len(data)
        THEN ReadOutcome(self, buf, "Ready", FALSE)
        ELSE LET rest == slice_from(data, self.index)
                 before_filled == Len(buf.filled)
                 r == slice_poll_read(rest.val, buf)
                 filled == Len(r.buf.filled) - before_filled
                 sum == add_usize(self.index, filled)
             IN  IF r.poll = "Pending"
                 THEN ReadOutcome(self, r.buf, "Pending", rest.panic)
                 ELSE ReadOutcome([self EXCEPT !.index = sum.val], r.buf, "Ready",
                                  rest.panic \/ sum.overflow)

----------------------------------------------------------------------------
(* impl AsyncSeek for IncludeDirFile *)

SeekFrom(mode, off) == [mode |-> mode, off |-> off]

SeekFroms ==
    [mode : {"Start"}, off : 0..U64Max]
        \cup [mode : {"End", "Current"}, off : I64Min..I64Max]

SeekErr == Err(InvalidInput, InvalidSeekMsg)

\* mutant: an absolute seek past the end is clamped to the content length
seek_start_clamped(self, start) ==
    [self |-> [self EXCEPT !.index = Min(AsUsize(start), Len(self.inner.contents))],
     res |-> Ok(0)]

\* SeekFrom::Start(start) => self.index = start as _
seek_start(self, start) ==
    [self |-> [self EXCEPT !.index = AsUsize(start)], res |-> Ok(0)]

\* mutant: from-end computed from the cursor instead of the content length
seek_end_from_index(self, end) ==
    LET r == checked_add_signed(self.index, AsIsize(end))
    IN  IF r.some
        THEN [self |-> [self EXCEPT !.index = r.val], res |-> Ok(0)]
        ELSE [self |-> self, res |-> SeekErr]

\* SeekFrom::End(end)
seek_end(self, end) ==
    LET r == checked_add_signed(Len(self.inner.contents), AsIsize(end))
    IN  IF r.some
        THEN [self |-> [self EXCEPT !.index = r.val], res |-> Ok(0)]
        ELSE [self |-> self, res |-> SeekErr]

\* mutant: from-current computed from the content length instead of the cursor
seek_current_from_end(self, index) ==
    LET r == checked_add_signed(Len(self.inner.contents), AsIsize(index))
    IN  IF r.some
        THEN [self |-> [self EXCEPT !.index = r.val], res |-> Ok(0)]
        ELSE [self |-> self, res |-> SeekErr]

\* SeekFrom::Current(index)
seek_current(self, index) ==
    LET r == checked_add_signed(self.index, AsIsize(index))
    IN  IF r.some
        THEN [self |-> [self EXCEPT !.index = r.val], res |-> Ok(0)]
        ELSE [self |-> self, res |-> SeekErr]

\* mutant: the seek only takes effect later; start_seek leaves index alone
start_seek_deferred(self, position) ==
    LET r == CASE position.mode = "Start" -> seek_start(self, position.off)
               [] position.mode = "End" -> seek_end(self, position.off)
               [] position.mode = "Current" -> seek_current(self, position.off)
    IN  [self |-> self, res |-> r.res]

\* mutant: index is assigned the wrapped sum before the range check fails
start_seek_wrapping(self, position) ==
    LET r == CASE position.mode = "Start" -> seek_start(self, position.off)
               [] position.mode = "End" -> seek_end(self, position.off)
               [] position.mode = "Current" -> seek_current(self, position.off)
        from == IF position.mode = "End" THEN Len(self.inner.contents) ELSE self.index
    IN  IF r.res.ok
        THEN r
        ELSE [self |-> [self EXCEPT !.index = (from + AsIsize(position.off)) % (UsizeMax + 1)],
              res |-> r.res]

start_seek(self, position) ==
    CASE position.mode = "Start" -> seek_start(self, position.off)
      [] position.mode = "End" -> seek_end(self, position.off)
      [] position.mode = "Current" -> seek_current(self, position.off)

\* mutant: reports Pending until a seek has moved the cursor off 0
poll_complete_pending(self) ==
    [poll |-> IF self.index = 0 THEN "Pending" ELSE "Ready", res |-> Ok(AsU64(self.index))]

poll_complete(self) == [poll |-> "Ready", res |-> Ok(AsU64(self.index))]

----------------------------------------------------------------------------
(* impl File for IncludeDirFile *)

\* mutant: the snapshot covers only the bytes after the cursor
file_metadata_remaining(self) ==
    Ok([entry |-> [kind |-> "File", path |-> self.inner.path,
                   file |-> [self.inner EXCEPT
                               !.contents = SubSeq(@, self.index + 1, Len(@))]]])

file_metadata(self) ==
    Ok([entry |-> [kind |-> "File", path |-> self.inner.path, file |-> self.inner]])

----------------------------------------------------------------------------
(* impl Metadata for IncludeDirMetadata *)

is_dir(md) == as_dir(md.entry).some

\* mutant: a file without a stored timestamp reports the epoch instead of failing
modified_epoch(md) ==
    LET f == as_file(md.entry)
    IN  IF f.some
        THEN IF f.val.metadata.some THEN Ok(f.val.metadata.val.modified) ELSE Ok(0)
        ELSE Err(NotFound, <<"cannot access metadata for ", md.entry.path>>)

modified(md) ==
    LET f == as_file(md.entry)
    IN  IF f.some /\ f.val.metadata.some
        THEN Ok(f.val.metadata.val.modified)
        ELSE Err(NotFound, <<"cannot access metadata for ", md.entry.path>>)

len(md) ==
    LET f == as_file(md.entry)
    IN  IF f.some THEN AsU64(Len(f.val.contents)) ELSE 0

----------------------------------------------------------------------------
(* The consumer: one slot per handle it holds, the operations it issues *)

Slots == {1}

\* what a destination buffer may already hold when it is handed to poll_read
PreFilled == {<<>>, <<0>>}

NoGhost == [via |-> "none", base |-> 0, out |-> <<>>]

\* the snapshot the consumer holds, and which call returned it
Snapshot(md, src) == [some |-> TRUE, val |-> md, src |-> src]

LastInit ==
    [op |-> "init", h |-> 0, path |-> "", pos |-> SeekFrom("", 0),
     buf |-> ReadBuf(<<>>, 0), rbuf |-> ReadBuf(<<>>, 0),
     before |-> 0, flag |-> FALSE, undo |-> FALSE, origin |-> 0,
     poll |-> "Ready", abort |-> FALSE, res |-> Ok(0)]

\* a from-current seek by -d on h issued right after a successful from-current
\* seek by d on h: the second half of a there-and-back pair
Undoes(l, h, position) ==
    /\ l.op = "start_seek" /\ l.h = h /\ l.res.ok
    /\ l.pos.mode = "Current" /\ position.mode = "Current"
    /\ position.off = -l.pos.off

\* the result as recorded in `last`: a returned handle or snapshot is kept in
\* `files` / `meta`, not in the record
Plain(r) == [r EXCEPT !.val = 0]

Init ==
    /\ files = [h \in Slots |-> None]
    /\ ghost = [h \in Slots |-> NoGhost]
    /\ meta = None
    /\ last = LastInit

\* backend.open(path).await, the handle stored in slot h on success
Open(h, path) ==
    LET r == open(path)
    IN  /\ files' = IF r.ok THEN [files EXCEPT ![h] = Some(r.val)] ELSE files
        /\ ghost' = IF r.ok
                    THEN [ghost EXCEPT ![h] = [via |-> "open", base |-> 0, out |-> <<>>]]
                    ELSE ghost
        /\ last' = [LastInit EXCEPT !.op = "open", !.h = h, !.path = path,
                                    !.poll = async_block(r).poll, !.res = Plain(r)]
        /\ UNCHANGED meta

\* backend.metadata(path).await
BackendMetadata(path) ==
    LET r == metadata(path)
    IN  /\ meta' = IF r.ok THEN Snapshot(r.val, "backend") ELSE meta
        /\ last' = [LastInit EXCEPT !.op = "metadata", !.path = path,
                                    !.poll = async_block(r).poll, !.res = Plain(r)]
        /\ UNCHANGED <<files, ghost>>

\* mutant: the cursor lives with the file, not with the handle, so a read on h
\* moves every handle that is open on the same file
PollRead_shared(h, pre, c) ==
    /\ files[h].some
    /\ LET self == files[h].val
           buf == ReadBuf(pre, Len(pre) + c)
           r == poll_read(self, buf)
           got == SubSeq(r.buf.filled, Len(pre) + 1, Len(r.buf.filled))
       IN  /\ files' = [k \in DOMAIN files |->
                            IF files[k].some /\ files[k].val.inner = self.inner
                            THEN Some(r.self) ELSE files[k]]
           /\ ghost' = [ghost EXCEPT ![h].out = @ \o got]
           /\ last' = [LastInit EXCEPT !.op = "poll_read", !.h = h, !.buf = buf,
                                       !.rbuf = r.buf, !.before = self.index,
                                       !.poll = r.poll, !.abort = r.abort,
                                       !.res = r.res]
           /\ UNCHANGED meta

\* one poll of a read on handle h into a buffer holding `pre` with c bytes left
PollRead(h, pre, c) ==
    /\ files[h].some
    /\ LET self == files[h].val
           buf == ReadBuf(pre, Len(pre) + c)
           r == poll_read(self, buf)
           got == SubSeq(r.buf.filled, Len(pre) + 1, Len(r.buf.filled))
       IN  /\ files' = [files EXCEPT ![h] = Some(r.self)]
           /\ ghost' = [ghost EXCEPT ![h].out = @ \o got]
           /\ last' = [LastInit EXCEPT !.op = "poll_read", !.h = h, !.buf = buf,
                                       !.rbuf = r.buf, !.before = self.index,
                                       !.poll = r.poll, !.abort = r.abort,
                                       !.res = r.res]
           /\ UNCHANGED meta

\* start_seek on handle h
StartSeek(h, position) ==
    /\ files[h].some
    /\ LET self == files[h].val
           r == start_seek(self, position)
       IN  /\ files' = [files EXCEPT ![h] = Some(r.self)]
           /\ ghost' = IF r.res.ok
                       THEN [ghost EXCEPT ![h] =
                               [via |-> position.mode,
                                base |-> IF position.mode = "Start"
                                         THEN position.off ELSE r.self.index,
                                out |-> <<>>]]
                       ELSE ghost
           /\ last' = [LastInit EXCEPT !.op = "start_seek", !.h = h, !.pos = position,
                                       !.before = self.index, !.res = r.res,
                                       !.undo = Undoes(last, h, position),
                                       !.origin = IF Undoes(last, h, position)
                                                  THEN last.before ELSE 0]
           /\ UNCHANGED meta

\* poll_complete on handle h: the position query, with or without a seek started
PollComplete(h) ==
    /\ files[h].some
    /\ LET self == files[h].val
           r == poll_complete(self)
       IN  /\ last' = [LastInit EXCEPT !.op = "poll_complete", !.h = h,
                                       !.before = self.index, !.poll = r.poll,
                                       !.res = r.res]
           /\ UNCHANGED <<files, ghost, meta>>

\* the consumer drops a seek it started on h before polling its completion
Cancel(h) ==
    /\ files[h].some
    /\ last.op = "start_seek" /\ last.h = h /\ last.res.ok
    /\ last' = [LastInit EXCEPT !.op = "cancel", !.h = h, !.before = last.before]
    /\ UNCHANGED <<files, ghost, meta>>

\* mutant: taking the snapshot rewinds the handle
FileMetadata_rewinds(h) ==
    /\ files[h].some
    /\ LET self == files[h].val
           r == file_metadata(self)
       IN  /\ meta' = IF r.ok THEN Snapshot(r.val, "file") ELSE meta
           /\ files' = [files EXCEPT ![h] = Some([self EXCEPT !.index = 0])]
           /\ last' = [LastInit EXCEPT !.op = "file_metadata", !.h = h,
                                       !.before = self.index, !.res = Plain(r)]
           /\ UNCHANGED ghost

\* file.metadata().await on handle h
FileMetadata(h) ==
    /\ files[h].some
    /\ LET self == files[h].val
           r == file_metadata(self)
       IN  /\ meta' = IF r.ok THEN Snapshot(r.val, "file") ELSE meta
           /\ last' = [LastInit EXCEPT !.op = "file_metadata", !.h = h,
                                       !.before = self.index,
                                       !.poll = async_block(r).poll, !.res = Plain(r)]
           /\ UNCHANGED <<files, ghost>>

\* the three queries on the snapshot the consumer holds
IsDir ==
    /\ meta.some
    /\ last' = [LastInit EXCEPT !.op = "is_dir", !.flag = is_dir(meta.val)]
    /\ UNCHANGED <<files, ghost, meta>>

Modified ==
    /\ meta.some
    /\ last' = [LastInit EXCEPT !.op = "modified", !.res = modified(meta.val)]
    /\ UNCHANGED <<files, ghost, meta>>

MdLen ==
    /\ meta.some
    /\ last' = [LastInit EXCEPT !.op = "len", !.res = Ok(len(meta.val))]
    /\ UNCHANGED <<files, ghost, meta>>

Next ==
    \/ \E h \in Slots, path \in Paths : Open(h, path)
    \/ \E path \in Paths : BackendMetadata(path)
    \/ \E h \in Slots, pre \in PreFilled, c \in 0..MaxCap : PollRead(h, pre, c)
    \/ \E h \in Slots, position \in SeekFroms : StartSeek(h, position)
    \/ \E h \in Slots : PollComplete(h)
    \/ \E h \in Slots : Cancel(h)
    \/ \E h \in Slots : FileMetadata(h)
    \/ IsDir
    \/ Modified
    \/ MdLen

Spec == Init /\ [][Next]_vars

----------------------------------------------------------------------------
(* Two handles from one backend, their operations interleaved *)

Slots2 == {1, 2}

Paths2 == {"hello.txt", "images/logo", "images"}

SeekFroms2 ==
    { SeekFrom("Start", 1), SeekFrom("Start", U64Max), SeekFrom("End", -1),
      SeekFrom("Current", -2) }

Init2 ==
    /\ files = [h \in Slots2 |-> None]
    /\ ghost = [h \in Slots2 |-> NoGhost]
    /\ meta = None
    /\ last = LastInit

Next2 ==
    \/ \E h \in Slots2, path \in Paths2 : Open(h, path)
    \/ BackendMetadata("images")
    \/ \E h \in Slots2, c \in {1, MaxCap} : PollRead(h, <<>>, c)
    \/ \E h \in Slots2, position \in SeekFroms2 : StartSeek(h, position)
    \/ \E h \in Slots2 : PollComplete(h)
    \/ \E h \in Slots2 : FileMetadata(h)
    \/ IsDir
    \/ Modified
    \/ MdLen

Spec2 == Init2 /\ [][Next2]_vars

----------------------------------------------------------------------------
(* The same program built for a target whose usize is narrower than u64: the
   offsets of SeekFrom::Start range over the wider u64 and those of
   SeekFrom::End / SeekFrom::Current over the wider i64, the cursor stays a
   usize *)

Paths32 == {"hello.txt", "images"}

SeekFroms32 ==
    [mode : {"Start"}, off : 0..U64MaxWide]
        \cup [mode : {"End", "Current"}, off : I64MinWide..I64MaxWide]

Init32 ==
    /\ files = [h \in Slots |-> None]
    /\ ghost = [h \in Slots |-> NoGhost]
    /\ meta = None
    /\ last = LastInit

Next32 ==
    \/ \E h \in Slots, path \in Paths32 : Open(h, path)
    \/ \E h \in Slots, c \in {1, MaxCap} : PollRead(h, <<>>, c)
    \/ \E h \in Slots, position \in SeekFroms32 : StartSeek(h, position)
    \/ \E h \in Slots : PollComplete(h)

Spec32 == Init32 /\ [][Next32]_vars

----------------------------------------------------------------------------
(* A read loop: a consumer that holds one handle, at any cursor an absolute
   seek can give it, and from then on only reads, each time into a buffer
   with room for at least one byte *)

InitLoop ==
    \E path \in Paths, start \in 0..U64Max :
        LET o == open(path)
            position == SeekFrom("Start", start)
            r == start_seek(o.val, position)
        IN  /\ o.ok
            /\ files = [h \in Slots |-> Some(r.self)]
            /\ ghost = [h \in Slots |-> [via |-> "Start", base |-> start, out |-> <<>>]]
            /\ meta = None
            /\ last = [LastInit EXCEPT !.op = "start_seek", !.h = 1, !.pos = position,
                                       !.res = r.res]

NextLoop ==
    \E h \in Slots, pre \in PreFilled, c \in 1..MaxCap : PollRead(h, pre, c)

\* poll_read never returns Pending, so a consumer that keeps calling it keeps
\* taking steps: weak fairness on the loop
SpecLoop == InitLoop /\ [][NextLoop]_vars /\ WF_vars(NextLoop)

----------------------------------------------------------------------------
(* What the claims are stated over *)

\* the handle in slot h, its content and the content's length
Handle(h) == files[h].val
Data(h) == files[h].val.inner.contents
L(h) == Len(files[h].val.inner.contents)

\* the last operation was `op` on the handle now in slot h
LastOn(op, h) == last.op = op /\ last.h = h /\ files[h].some

\* the bytes the last read appended to its buffer
Delivered == SubSeq(last.rbuf.filled, Len(last.buf.filled) + 1, Len(last.rbuf.filled))

\* the entry of the tree a path resolves to
Resolves(p) == \E e \in Tree : ComponentsOf(e.path) = ComponentsOf(p)
EntryAt(p) == CHOOSE e \in Tree : ComponentsOf(e.path) = ComponentsOf(p)
ResolvesToFile(p) ==
    \E e \in Tree : ComponentsOf(e.path) = ComponentsOf(p) /\ e.kind = "File"

\* where a seek is meant to land, in unbounded arithmetic
Target(position, index, length) ==
    CASE position.mode = "Start" -> position.off
      [] position.mode = "End" -> length + position.off
      [] position.mode = "Current" -> index + position.off

----------------------------------------------------------------------------
(* C1 *)

\* C1: on a handle that was opened and never repositioned since, the bytes
\* delivered by its reads so far, in order, are the first `index` bytes of the
\* content; a read with room in its buffer delivers at least one byte until
\* all L bytes are out, so a zero-byte read into a non-full buffer means the
\* whole content was delivered; and every read at the end delivers nothing,
\* without error.
C1_SequentialReadsYieldContent ==
    \A h \in Slots :
        (files[h].some /\ ghost[h].via = "open") =>
            /\ Handle(h).index <= L(h)
            /\ ghost[h].out = SubSeq(Data(h), 1, Handle(h).index)
            /\ LastOn("poll_read", h) =>
                /\ last.res.ok
                /\ (remaining(last.buf) >= 1 /\ last.before < L(h)) =>
                        Handle(h).index > last.before
                /\ (remaining(last.buf) >= 1 /\ Delivered = <<>>) =>
                        ghost[h].out = Data(h)
                /\ last.before >= L(h) =>
                        /\ last.rbuf = last.buf
                        /\ ghost[h].out = Data(h)

\* the three bytes of hello.txt are out and a further read delivered nothing
C1_Witness ==
    /\ LastOn("poll_read", 1)
    /\ ghost[1].via = "open"
    /\ Handle(1).inner.path = "hello.txt"
    /\ last.before = 3 /\ remaining(last.buf) >= 1 /\ Delivered = <<>>
    /\ ghost[1].out = <<104, 105, 33>>

----------------------------------------------------------------------------
(* C2 *)

\* C2: a read at index < L into a buffer with c bytes left appends exactly
\* content[index .. index + min(c, L - index)) after what the buffer held,
\* and advances index by that many bytes.
C2_SingleReadCopiesMin ==
    \A h \in Slots :
        (LastOn("poll_read", h) /\ last.before < L(h)) =>
            LET n == Min(remaining(last.buf), L(h) - last.before)
            IN  /\ last.res.ok
                /\ last.rbuf.filled =
                        last.buf.filled \o SubSeq(Data(h), last.before + 1, last.before + n)
                /\ last.rbuf.cap = last.buf.cap
                /\ Handle(h).index = last.before + n

\* a read from the middle of hello.txt into a part-filled buffer with more
\* room than content left: the content is the limit
C2_Witness ==
    /\ LastOn("poll_read", 1)
    /\ Handle(1).inner.path = "hello.txt"
    /\ last.before = 1 /\ last.buf.filled = <<0>> /\ remaining(last.buf) = 3
    /\ last.rbuf.filled = <<0, 105, 33>>
    /\ Handle(1).index = 3

----------------------------------------------------------------------------
(* C3 *)

\* C3 (as claimed): a seek that was started but whose completion has not been
\* polled, or that was dropped before its completion was polled, has not yet
\* changed index: index still has the value it had before start_seek.
C3_SeekMutatesOnlyOnCompletion ==
    \A h \in Slots :
        (LastOn("start_seek", h) \/ LastOn("cancel", h)) =>
            Handle(h).index = last.before

\* C3 (amended): the index of a handle changes only in a step that is a read
\* polled to completion or a start_seek that returned Ok; poll_complete and
\* dropping a started seek never change it, so a seek dropped after start_seek
\* leaves index at the seek's target, not at its previous value.
C3_IndexChangesAtStartSeekOrRead ==
    [][\A h \in Slots :
          /\ (files[h].some /\ files'[h].some /\ last'.op # "open"
                /\ Handle(h)'.index # Handle(h).index) =>
                    /\ last'.h = h
                    /\ last'.res.ok
                    /\ last'.op \in {"start_seek", "poll_read"}
          /\ (last'.op = "cancel" /\ last'.h = h) =>
                    /\ last.op = "start_seek" /\ last.res.ok
                    /\ Handle(h)'.index = Target(last.pos, last.before, L(h))
      ]_vars

\* a started seek was dropped and index is no longer what it was before it
C3_Witness ==
    /\ LastOn("cancel", 1)
    /\ Handle(1).index # last.before

----------------------------------------------------------------------------
(* C4 *)

\* C4: a seek fails exactly when it is from-end or from-current and its target
\* is negative or beyond the largest position, and a failed seek leaves the
\* handle (index and content) and everything else exactly as before, from any
\* cursor position.
C4_FailedSeekLeavesHandleUnchanged ==
    [][\A h \in Slots :
          (last'.op = "start_seek" /\ last'.h = h) =>
              LET t == Target(last'.pos, Handle(h).index, L(h))
              IN  /\ last'.res.ok <=>
                        (last'.pos.mode = "Start" \/ (0 <= t /\ t <= UsizeMax))
                  /\ ~last'.res.ok =>
                        /\ files' = files
                        /\ last'.before = Handle(h).index
                        /\ last'.res.kind = InvalidInput
      ]_vars

\* a seek failed with the cursor past the end of hello.txt, and the cursor
\* is still there
C4_Witness ==
    /\ LastOn("start_seek", 1)
    /\ ~last.res.ok
    /\ Handle(1).inner.path = "hello.txt"
    /\ last.before > 3
    /\ Handle(1).index = last.before

----------------------------------------------------------------------------
(* C5 *)

\* C5: a from-end seek by -k with 0 <= k <= L succeeds at position L - k
\* whatever the cursor was; with k > L it fails with the "negative or
\* overflowing position" error; by a positive offset it succeeds at
\* L + offset unless that exceeds the largest position, and then fails with
\* the same error.
C5_SeekFromEnd ==
    \A h \in Slots :
        (LastOn("start_seek", h) /\ last.pos.mode = "End") =>
            LET off == last.pos.off
                fails == /\ ~last.res.ok
                         /\ last.res.kind = InvalidInput
                         /\ last.res.msg = InvalidSeekMsg
            IN  /\ (off <= 0 /\ -off <= L(h)) =>
                        (last.res.ok /\ Handle(h).index = L(h) - (-off))
                /\ (off <= 0 /\ -off > L(h)) => fails
                /\ (off > 0 /\ L(h) + off <= UsizeMax) =>
                        (last.res.ok /\ Handle(h).index = L(h) + off)
                /\ (off > 0 /\ L(h) + off > UsizeMax) => fails

\* from-end by -2 on hello.txt, issued with the cursor past the end, lands on 1
C5_Witness ==
    /\ LastOn("start_seek", 1)
    /\ last.pos = SeekFrom("End", -2)
    /\ Handle(1).inner.path = "hello.txt"
    /\ last.before > 3
    /\ last.res.ok /\ Handle(1).index = 1

----------------------------------------------------------------------------
(* C6 *)

\* C6: an absolute seek to o lands on o; from then on, while the handle is
\* not repositioned again, for o <= L the reads deliver content[o .. index)
\* and a zero-byte read into a non-full buffer comes only once the whole
\* suffix content[o .. L) is out; for o > L every read delivers nothing,
\* without error.
C6_SeekStartThenRead ==
    \A h \in Slots :
        (files[h].some /\ ghost[h].via = "Start") =>
            LET o == ghost[h].base
            IN  /\ (LastOn("start_seek", h) /\ last.res.ok) =>
                        (last.pos.mode = "Start" /\ Handle(h).index = last.pos.off)
                /\ o <= L(h) =>
                        /\ o <= Handle(h).index /\ Handle(h).index <= L(h)
                        /\ ghost[h].out = SubSeq(Data(h), o + 1, Handle(h).index)
                        /\ (LastOn("poll_read", h) /\ remaining(last.buf) >= 1
                                /\ Delivered = <<>>) =>
                                ghost[h].out = SubSeq(Data(h), o + 1, L(h))
                /\ o > L(h) =>
                        /\ Handle(h).index = o
                        /\ ghost[h].out = <<>>
                        /\ LastOn("poll_read", h) =>
                                (last.res.ok /\ last.rbuf = last.buf)
                /\ LastOn("poll_read", h) => last.res.ok

\* after an absolute seek to 1 on hello.txt the reads delivered the suffix
\* and the next read delivered nothing
C6_Witness ==
    /\ LastOn("poll_read", 1)
    /\ ghost[1].via = "Start" /\ ghost[1].base = 1
    /\ Handle(1).inner.path = "hello.txt"
    /\ ghost[1].out = <<105, 33>>
    /\ remaining(last.buf) >= 1 /\ Delivered = <<>>

----------------------------------------------------------------------------
(* C7 *)

\* C7: a from-current seek by d that succeeds, followed at once by a
\* from-current seek by -d on the same handle, succeeds too and puts the
\* cursor back where it was before the first.
C7_SeekCurrentReversible ==
    \A h \in Slots :
        (LastOn("start_seek", h) /\ last.undo) =>
            /\ last.res.ok
            /\ Handle(h).index = last.origin

\* forth by +3 and back by -3 from a cursor past the end of the content
C7_Witness ==
    /\ LastOn("start_seek", 1)
    /\ last.undo
    /\ last.pos = SeekFrom("Current", -3)
    /\ last.origin > L(1)
    /\ Handle(1).index = last.origin

----------------------------------------------------------------------------
(* C8 *)

\* the message of an error names path p
Names(msg, p) == \E i \in 1..Len(msg) : msg[i] = p

\* C8: open(p) succeeds exactly when p resolves to a File of the tree, and
\* then the slot holds a new handle with cursor 0 over that file's content;
\* for an absent p and for a directory it fails with NotFound, the message
\* naming p, and the slot keeps what it held.
C8_OpenFilesOnly ==
    [][\A h \in Slots :
          (last'.op = "open" /\ last'.h = h) =>
              LET p == last'.path
              IN  /\ last'.res.ok <=> ResolvesToFile(p)
                  /\ last'.res.ok =>
                        /\ files'[h].some
                        /\ Handle(h)'.index = 0
                        /\ Handle(h)'.inner = EntryAt(p).file
                        /\ Data(h)' = EntryAt(p).file.contents
                  /\ ~last'.res.ok =>
                        /\ last'.res.kind = NotFound
                        /\ Names(last'.res.msg, p)
                        /\ files' = files
      ]_vars

\* open of the directory "images" failed with NotFound
C8_Witness ==
    /\ last.op = "open"
    /\ last.path = "images"
    /\ ~last.res.ok /\ last.res.kind = NotFound
    /\ last.res.msg = <<"images", " is not a file.">>

----------------------------------------------------------------------------
(* C9 *)

\* C9: metadata(p) succeeds exactly when p resolves to an entry, file or
\* directory, returning a snapshot of that entry, and fails with NotFound
\* otherwise; on a snapshot metadata(p) returned, is_dir is true exactly for
\* a directory, len is 0 for a directory and the content length for a file,
\* and modified fails with NotFound for a directory.
C9_BackendMetadata ==
    /\ last.op = "metadata" =>
        /\ last.res.ok <=> Resolves(last.path)
        /\ last.res.ok =>
            (meta.some /\ meta.src = "backend" /\ meta.val.entry = EntryAt(last.path))
        /\ ~last.res.ok =>
            (last.res.kind = NotFound /\ Names(last.res.msg, last.path))
    /\ (meta.some /\ meta.src = "backend") =>
        LET p == meta.val.entry.path
            dir == EntryAt(p).kind = "Dir"
        IN  /\ Resolves(p)
            /\ last.op = "is_dir" => (last.flag <=> dir)
            /\ last.op = "len" =>
                /\ last.res.ok
                /\ last.res.val = IF dir THEN 0 ELSE Len(EntryAt(p).file.contents)
            /\ (last.op = "modified" /\ dir) =>
                (~last.res.ok /\ last.res.kind = NotFound)

\* modified on the snapshot of the directory "images" failed with NotFound
C9_Witness ==
    /\ meta.some /\ meta.src = "backend"
    /\ meta.val.entry.path = "images"
    /\ last.op = "modified"
    /\ ~last.res.ok /\ last.res.kind = NotFound

----------------------------------------------------------------------------
(* C10 *)

\* C10: a handle's own metadata request succeeds whatever the cursor is and
\* returns a File snapshot of the handle's file; on such a snapshot is_dir
\* is false and len is the file's full content length, not what is left
\* after the cursor.
C10_HandleMetadata ==
    /\ \A h \in Slots :
        LastOn("file_metadata", h) =>
            /\ last.res.ok
            /\ meta.some /\ meta.src = "file"
            /\ meta.val.entry.kind = "File"
            /\ meta.val.entry.path = Handle(h).inner.path
            /\ meta.val.entry.file.contents = EntryAt(Handle(h).inner.path).file.contents
    /\ (meta.some /\ meta.src = "file") =>
        /\ ResolvesToFile(meta.val.entry.path)
        /\ last.op = "is_dir" => ~last.flag
        /\ last.op = "len" =>
            /\ last.res.ok
            /\ last.res.val = Len(EntryAt(meta.val.entry.path).file.contents)

\* metadata asked of a handle on hello.txt with the cursor past the end
C10_Witness ==
    /\ LastOn("file_metadata", 1)
    /\ Handle(1).inner.path = "hello.txt"
    /\ Handle(1).index > 3
    /\ last.res.ok
    /\ len(meta.val) = 3

----------------------------------------------------------------------------
(* C11 *)

\* the operations that act on a handle
HandleOps == {"poll_read", "start_seek", "poll_complete", "cancel", "file_metadata"}

\* what a handle has delivered since it was last positioned at `base` is what
\* it delivers when nothing else runs: content[base .. index), and nothing
\* from a position past the end
AsIfAlone(h) ==
    files[h].some =>
        /\ ghost[h].base <= L(h) =>
                /\ ghost[h].base <= Handle(h).index /\ Handle(h).index <= L(h)
                /\ ghost[h].out = SubSeq(Data(h), ghost[h].base + 1, Handle(h).index)
        /\ ghost[h].base > L(h) =>
                /\ Handle(h).index = ghost[h].base
                /\ ghost[h].out = <<>>

\* C11: with two handles from one backend, on the same or on different paths,
\* a step that is an operation on the other handle, an open into the other
\* slot, or a backend metadata call or snapshot query leaves a handle's cursor,
\* content and delivered bytes untouched, and after every step each handle
\* has delivered exactly what it delivers when run alone.
C11_HandlesIndependent ==
    [][\A h \in Slots2 :
          /\ (\/ last'.op \in HandleOps /\ last'.h # h
              \/ last'.op = "open" /\ last'.h # h
              \/ last'.op \in {"metadata", "is_dir", "len", "modified"}) =>
                    (files'[h] = files[h] /\ ghost'[h] = ghost[h])
          /\ AsIfAlone(h)'
      ]_vars

\* two handles on hello.txt at different cursors, each with its own bytes out
C11_Witness ==
    /\ DOMAIN files = Slots2
    /\ files[1].some /\ files[2].some
    /\ Handle(1).inner.path = "hello.txt" /\ Handle(2).inner.path = "hello.txt"
    /\ last.op = "poll_read" /\ last.h = 2
    /\ Handle(1).index = 1 /\ ghost[1].out = <<104>>
    /\ Handle(2).index = 3 /\ ghost[2].out = <<104, 105, 33>>

----------------------------------------------------------------------------
(* C12 *)

\* C12: every operation (open, metadata, read, seek completion, handle
\* metadata) is Ready on its first poll, never Pending, in every handle state;
\* the seek completion / position query returns Ok(index) at once, also when
\* no seek was started on the handle.
C12_ReadyOnFirstPoll ==
    /\ last.poll = "Ready"
    /\ \A h \in Slots :
        LastOn("poll_complete", h) =>
            (last.res.ok /\ last.res.val = Handle(h).index)

\* the position is asked of a handle that was only opened and never sought,
\* its cursor still 0
C12_Witness ==
    /\ LastOn("poll_complete", 1)
    /\ ghost[1].via = "open"
    /\ Handle(1).index = 0
    /\ last.poll = "Ready" /\ last.res.val = 0

----------------------------------------------------------------------------
(* C13 *)

\* C13: an absolute seek never fails and sets index to the requested offset
\* itself, for every offset of the unsigned offset type and whatever the
\* content length is; the position reported by the completion that follows
\* is the requested offset, nothing is lost when the offset is converted to
\* the cursor's width.  `start as _` is an unchecked cast: where usize is
\* narrower than u64 it drops the high bits of the offset, so this fails
\* under Spec32 (an absolute seek to UsizeMax + 1 leaves index 0); it holds
\* under Spec, where usize is as wide as u64.
C13_SeekStartExact ==
    [][\A h \in Slots :
          /\ (last'.op = "start_seek" /\ last'.h = h /\ last'.pos.mode = "Start") =>
                /\ last'.res.ok
                /\ Handle(h)'.index = last'.pos.off
          /\ (/\ last.op = "start_seek" /\ last.h = h /\ last.pos.mode = "Start"
              /\ last'.op = "poll_complete" /\ last'.h = h) =>
                /\ last'.res.ok
                /\ last'.res.val = last.pos.off
      ]_vars

----------------------------------------------------------------------------
(* C14 *)

\* C14: modified on a snapshot returns the stored timestamp exactly when the
\* entry is a File of the tree that carries one; for a File without one and
\* for every Directory it fails with NotFound, the message naming the
\* entry's path; the same for a snapshot from the backend's metadata(path)
\* and for one from a handle's own metadata.
C14_ModifiedTime ==
    (meta.some /\ last.op = "modified") =>
        LET p == meta.val.entry.path
            stamped == EntryAt(p).kind = "File" /\ EntryAt(p).file.metadata.some
        IN  /\ meta.src \in {"backend", "file"}
            /\ Resolves(p)
            /\ last.res.ok <=> stamped
            /\ last.res.ok => last.res.val = EntryAt(p).file.metadata.val.modified
            /\ ~last.res.ok =>
                /\ last.res.kind = NotFound
                /\ last.res.msg = <<"cannot access metadata for ", p>>

\* modified on the snapshot a handle on empty.txt gave of itself: the file
\* carries no timestamp, NotFound
C14_Witness ==
    /\ meta.some /\ meta.src = "file"
    /\ meta.val.entry.path = "empty.txt"
    /\ last.op = "modified"
    /\ ~last.res.ok /\ last.res.kind = NotFound
    /\ Names(last.res.msg, "empty.txt")

----------------------------------------------------------------------------
(* C15 *)

\* C15: a read never fails and never aborts: whatever opens, reads and
\* successful or failed seeks came before (cursor at the content length, far
\* past it, an empty file, a buffer with no room left), the poll is Ready
\* with Ok, no slice of the content was out of range and the cursor did not
\* overflow; the cursor afterwards is the cursor before plus the bytes
\* delivered.
C15_ReadInfallible ==
    \A h \in Slots :
        LastOn("poll_read", h) =>
            /\ last.poll = "Ready"
            /\ last.res.ok
            /\ ~last.abort
            /\ last.before + Len(Delivered) <= UsizeMax
            /\ Handle(h).index = last.before + Len(Delivered)

\* a read on the empty file with the cursor at the largest offset and a
\* buffer with no room left
C15_Witness ==
    /\ LastOn("poll_read", 1)
    /\ Handle(1).inner.path = "empty.txt"
    /\ L(1) = 0
    /\ last.before = UsizeMax
    /\ remaining(last.buf) = 0
    /\ last.poll = "Ready" /\ last.res.ok /\ ~last.abort

----------------------------------------------------------------------------
(* C16 *)

\* C16: a read issued at index >= L delivers nothing and leaves the buffer
\* and the handle as they were, the cursor is not pulled back to L; so on a
\* handle last positioned by an absolute seek to o > L, whatever reads
\* followed, the cursor is o, a position query reports o and a from-current
\* seek by d lands on o + d or fails when o + d is out of range.
C16_ReadAtEndIsNoOp ==
    [][\A h \in Slots :
          /\ (/\ files[h].some /\ Handle(h).index >= L(h)
              /\ last'.op = "poll_read" /\ last'.h = h) =>
                /\ last'.rbuf = last'.buf
                /\ files'[h] = files[h]
                /\ last'.poll = "Ready" /\ last'.res.ok
          /\ (files[h].some /\ ghost[h].via = "Start" /\ ghost[h].base > L(h)) =>
                LET o == ghost[h].base
                IN  /\ Handle(h).index = o
                    /\ (last'.op = "poll_complete" /\ last'.h = h) =>
                          last'.res.ok /\ last'.res.val = o
                    /\ (/\ last'.op = "start_seek" /\ last'.h = h
                        /\ last'.pos.mode = "Current") =>
                          LET t == o + last'.pos.off
                          IN  IF 0 <= t /\ t <= UsizeMax
                              THEN last'.res.ok /\ Handle(h)'.index = t
                              ELSE ~last'.res.ok /\ files'[h] = files[h]
      ]_vars

\* hello.txt sought absolutely to 5, past its 3 bytes, then read into a buffer
\* with room: the buffer comes back as it went in and the cursor is still 5
C16_Witness ==
    /\ LastOn("poll_read", 1)
    /\ Handle(1).inner.path = "hello.txt"
    /\ ghost[1].via = "Start" /\ ghost[1].base = 5
    /\ last.before = 5
    /\ last.buf.filled = <<0>> /\ remaining(last.buf) >= 1
    /\ last.rbuf = last.buf
    /\ Handle(1).index = 5

----------------------------------------------------------------------------
(* C17 *)

\* C17: a read never moves the cursor past the end of the content: from
\* index <= L it ends at index <= L; a step that changes a handle and leaves
\* its cursor past L is a successful seek on that handle (absolute, from the
\* end with a positive offset, or from-current), never a read; and the cursor
\* is never negative.
C17_ReadsStayWithinContent ==
    [][\A h \in Slots :
          /\ (/\ files[h].some /\ Handle(h).index <= L(h)
              /\ last'.op = "poll_read" /\ last'.h = h) =>
                Handle(h)'.index <= L(h)'
          /\ (/\ files'[h].some /\ files'[h] # files[h]
              /\ Handle(h)'.index > L(h)') =>
                /\ last'.op = "start_seek" /\ last'.h = h /\ last'.res.ok
                /\ \/ last'.pos.mode = "Start"
                   \/ last'.pos.mode = "End" /\ last'.pos.off > 0
                   \/ last'.pos.mode = "Current"
          /\ files[h].some =>
                /\ Handle(h).index >= 0
                /\ Handle(h).index > L(h) => ghost[h].via \in {"Start", "End", "Current"}
          /\ files'[h].some => Handle(h)'.index >= 0
      ]_vars

\* a read on hello.txt from offset 1 into a buffer with room for 3: it stops
\* at the end of the content, cursor 3
C17_Witness ==
    /\ LastOn("poll_read", 1)
    /\ Handle(1).inner.path = "hello.txt"
    /\ last.before = 1
    /\ remaining(last.buf) = 3
    /\ Len(Delivered) = 2
    /\ Handle(1).index = L(1)

----------------------------------------------------------------------------
(* C18 *)

MetadataOps == {"file_metadata", "metadata", "is_dir", "len", "modified"}

\* what the next read, seek or position query on a handle would give
NextResults(self) ==
    <<poll_read(self, ReadBuf(<<>>, MaxCap)),
      start_seek(self, SeekFrom("Current", -1)),
      poll_complete(self)>>

\* C18: with two handles from one backend, taking a handle's metadata, a
\* backend metadata call and the three queries on a snapshot leave every
\* handle's cursor, content and delivered bytes as they were, and the queries
\* leave the snapshot as it was; an open changes at most the slot it returns
\* its handle into, and nothing when it fails; so the next read, seek or
\* position query on any handle gives what it would have given without the
\* interposed call.
C18_MetadataAndOpenAreReadOnly ==
    [][/\ last'.op \in MetadataOps =>
            /\ files' = files
            /\ ghost' = ghost
       /\ last'.op \in {"is_dir", "len", "modified"} => meta' = meta
       /\ last'.op = "open" =>
            /\ meta' = meta
            /\ ~last'.res.ok => files' = files /\ ghost' = ghost
            /\ \A k \in Slots2 \ {last'.h} :
                  files'[k] = files[k] /\ ghost'[k] = ghost[k]
       /\ \A k \in Slots2 :
            (/\ files[k].some
             /\ \/ last'.op \in MetadataOps
                \/ last'.op = "open" /\ (last'.h # k \/ ~last'.res.ok)) =>
                /\ files'[k].some
                /\ NextResults(Handle(k)') = NextResults(Handle(k))
      ]_vars

\* handle 1 is two bytes into hello.txt, handle 2 is open as well, and the
\* last step took handle 1's metadata: the cursor is still 2
C18_Witness ==
    /\ LastOn("file_metadata", 1)
    /\ files[2].some
    /\ Handle(1).inner.path = "hello.txt"
    /\ ghost[1].via = "Start" /\ ghost[1].base = 1 /\ Len(ghost[1].out) = 1
    /\ Handle(1).index = 2
    /\ last.before = 2
    /\ meta.some /\ meta.src = "file"

----------------------------------------------------------------------------
(* C19 *)

\* the last step on h was a completed read into a buffer with room that
\* delivered nothing
ZeroRead(h) ==
    /\ LastOn("poll_read", h)
    /\ last.poll = "Ready" /\ last.res.ok
    /\ remaining(last.buf) >= 1
    /\ Len(Delivered) = 0

\* C19: in a read loop without seeks, every read with room for at least one
\* byte issued at index < L strictly increases index and stays within L, so
\* there are at most L - index reads that deliver data; a read with room
\* delivers nothing exactly when it was issued at index >= L; and the loop
\* always gets to a zero-byte read.
C19_ReadLoopProgress ==
    /\ [][\A h \in Slots :
            (/\ files[h].some /\ Handle(h).index < L(h)
             /\ last'.op = "poll_read" /\ last'.h = h
             /\ remaining(last'.buf) >= 1) =>
                /\ Handle(h)'.index > Handle(h).index
                /\ Handle(h)'.index <= L(h)
                /\ Len(ghost'[h].out) > Len(ghost[h].out)
         ]_vars
    /\ [](\A h \in Slots :
            (LastOn("poll_read", h) /\ remaining(last.buf) >= 1) =>
                (Len(Delivered) = 0 <=> last.before >= L(h)))
    /\ \A h \in Slots : (files[h].some /\ ~ZeroRead(h)) ~> ZeroRead(h)

\* hello.txt read from offset 0 to its end, all three bytes delivered, and
\* then the zero-byte read at index = L
C19_Witness ==
    /\ ZeroRead(1)
    /\ Handle(1).inner.path = "hello.txt"
    /\ ghost[1].base = 0
    /\ ghost[1].out = Data(1)
    /\ last.before = L(1)
    /\ Handle(1).index = L(1)

====
